---- MODULE Spec2Model ----
(***************************************************************************)
(* Model of src/bot.py: the sales bot that polls a marketplace feed every  *)
(* 60 seconds (check_sales), posts the sales that are newer than a         *)
(* persisted per-collection timestamp and not older than 24 hours, and     *)
(* then persists the newest posted timestamp.                              *)
(*                                                                         *)
(* check_sales is one coroutine run by discord.ext.tasks.loop.  A step of  *)
(* the model is the stretch of code between two awaits: the actions are    *)
(* the moments an awaited call returns (or raises).                        *)
(*                                                                         *)
(* The loop is discord.py 2.x (bot.py sets intents.message_content): it    *)
(* awaits check_sales, runs the next iteration 60 s after the time the     *)
(* last one was due (at once when that time has passed), retries after a   *)
(* back-off when check_sales raises a connection error and ends for good   *)
(* when it raises anything else.                                           *)
(*                                                                         *)
(* Time is counted in hours.  Timestamps are integers: DatetimeMin stands  *)
(* for datetime.min, Epoch for 1970-01-01, larger numbers for real dates.  *)
(***************************************************************************)
EXTENDS Integers, Sequences, FiniteSets, TLC

\* ------------------------------------------------------------- bounds
\* Largest batch fetch_sales returns in the model (the feed is asked for 20).
MaxBatch == 2
\* How many hours the wall clock advances during a run.
MaxClock == 1
\* Cap on the number of elapsed 60 s intervals whose iteration has not begun.
MaxBehind == 1

\* ---------------------------------------------------------- constants
\* timedelta(hours=24)
Window == 24
\* datetime.min.replace(tzinfo=timezone.utc): "no watermark yet"
DatetimeMin == 0
\* datetime.fromisoformat("1970-01-01T00:00:00.000+00:00"): the default date
Epoch == 1
\* The "date" key is absent from the record.
NoDate == 0 - 1
\* The "date" string is not ISO-8601: datetime.fromisoformat raises ValueError.
BadDate == 0 - 2
\* "2025-03-11T21:00:00.000Z", the date of test_sale's record: after the
\* epoch, before every date of the feed.
TestDate == 2

\* COLLECTIONS in iteration order (the second entry is the one the source
\* keeps commented out as the template for further collections).
COLLECTIONS == <<"dopedoges", "minidoges">>
Collections == {COLLECTIONS[k] : k \in 1..Len(COLLECTIONS)}

\* The wall clock at start-up: late enough that 1970 is more than a day ago.
FirstNow == Window + 6
Clock == FirstNow..(FirstNow + MaxClock)
\* Dates of feed records: the oldest is exactly 24 h old at start-up and
\* turns stale as soon as the clock advances.
Dates == (FirstNow - Window)..(FirstNow - Window + 2)
Ids == {1, 2}

Sale(id, d) ==
    [id |-> id, status |-> "bought", buyerAddress |-> "D8buyer", date |-> d]

\* The records a feed may return: a completed sale of every date, a second
\* sale that shares the middle date, a sale without date, a sale with a
\* garbled date, a listing that is not sold and a "bought" record without
\* buyer.
Records ==
    {Sale(1, d) : d \in Dates}
        \cup {Sale(2, FirstNow - Window + 1)}
        \cup {Sale(1, NoDate), Sale(1, BadDate)}
        \cup {[Sale(1, FirstNow - Window + 2) EXCEPT !.status = "listed"],
              [Sale(1, FirstNow - Window + 2) EXCEPT !.buyerAddress = ""]}

Batches == UNION {[1..n -> Records] : n \in 0..MaxBatch}

\* What a response that is not a 200 may carry in place of the data.
ErrorBodies == {b \in Batches : Len(b) <= 1}

\* ---------------------------------------------------- pure functions
\* x.get("date", "1970-01-01T00:00:00.000Z") parsed by fromisoformat.
\* Only applied to records whose date parses.
ParseDate(r) == IF r.date = NoDate THEN Epoch ELSE r.date

Parses(r) == r.date # BadDate

\* Insert r after the last element whose key is <= r's key (stable).
RECURSIVE InsertSorted(_, _)
InsertSorted(s, r) ==
    IF s = <<>> THEN <<r>>
    ELSE IF ParseDate(s[Len(s)]) <= ParseDate(r) THEN Append(s, r)
    ELSE Append(InsertSorted(SubSeq(s, 1, Len(s) - 1), r), s[Len(s)])

\* sorted(sales, key=...): stable, ascending by parsed date.
RECURSIVE SortedPrefix(_, _)
SortedPrefix(s, n) ==
    IF n = 0 THEN <<>> ELSE InsertSorted(SortedPrefix(s, n - 1), s[n])

\* Mutant: the batch is left in the order of the feed.
SortByDate_m(s) == s

SortByDate(s) == SortedPrefix(s, Len(s))

\* Insert r after the last element whose key is >= r's key (stable).
RECURSIVE InsertSortedReverse(_, _)
InsertSortedReverse(s, r) ==
    IF s = <<>> THEN <<r>>
    ELSE IF ParseDate(s[Len(s)]) >= ParseDate(r) THEN Append(s, r)
    ELSE Append(InsertSortedReverse(SubSeq(s, 1, Len(s) - 1), r), s[Len(s)])

\* sorted(sales, key=..., reverse=True): stable, descending by parsed date.
RECURSIVE SortedPrefixReverse(_, _)
SortedPrefixReverse(s, n) ==
    IF n = 0 THEN <<>>
    ELSE InsertSortedReverse(SortedPrefixReverse(s, n - 1), s[n])

SortByDateReverse(s) == SortedPrefixReverse(s, Len(s))

\* Mutant: a record without buyer counts as a sale.
NotASale_m(r) == r.status # "bought"

\* sale.get("status") != "bought" or not sale.get("buyerAddress")
NotASale(r) == r.status # "bought" \/ r.buyerAddress = ""

\* Mutant: the window test is off by one hour.
OlderThanWindow_m(r, ct) == ct - ParseDate(r) > Window + 1

\* current_time - sale_timestamp > timedelta(hours=24)
OlderThanWindow(r, ct) == ct - ParseDate(r) > Window

\* Mutant: `<` for `<=`, a record at the watermark is posted again.
AlreadyProcessed_m(r, last) == ParseDate(r) < last

\* sale_timestamp <= last_sale_timestamp
AlreadyProcessed(r, last) == ParseDate(r) <= last

\* The record passes the three `continue` tests of the for loop.
Selected(r, last, ct) ==
    /\ ~NotASale(r)
    /\ ~OlderThanWindow(r, ct)
    /\ ~AlreadyProcessed(r, last)

\* The index of the first record at or after position i that reaches
\* post_sale_to_discord; Len + 1 when the for loop runs off the end.
NextSelected(s, i, last, ct) ==
    LET hits == {j \in i..Len(s) : Selected(s[j], last, ct)}
    IN  IF hits = {} THEN Len(s) + 1
        ELSE CHOOSE j \in hits : \A k \in hits : j <= k

\* The records of s that reach post_sale_to_discord, by position.
SelectedSet(s, last, ct) == {j \in 1..Len(s) : Selected(s[j], last, ct)}

\* The records of s that are inside the 24 h window, by position.
FreshSet(s, ct) == {j \in 1..Len(s) : ~OlderThanWindow(s[j], ct)}

\* Mutant: the candidate watermark is never raised.
NewLastSaleTimestamp_m(t, newLast) == newLast

\* if new_sale_timestamp > new_last_sale_timestamp: take it.
NewLastSaleTimestamp(t, newLast) == IF t > newLast THEN t ELSE newLast

\* Mutant: the watermark is saved at the end of every cycle.
AfterDeliveryPass_m(newLast, last) == "save"

\* if new_last_sale_timestamp != last_sale_timestamp: save, else nothing.
AfterDeliveryPass(newLast, last) == IF newLast # last THEN "save" ELSE "done"

\* Mutant: a failed load hands on the row all the same.
LoadResult_m(ok, row) == row

\* What load_last_sale_timestamp returns: the row's timestamp, or
\* datetime.min when there is no row (the table then holds DatetimeMin
\* here) or the query raised.
LoadResult(ok, row) == IF ok THEN row ELSE DatetimeMin

\* Mutant: the body of a failed response is returned as data.
FetchResult_m(ok, batch) == batch

\* fetch_sales with the exception or the non-200 response turned into [].
FetchResult(ok, batch) == IF ok THEN batch ELSE <<>>

\* What fetch_sales may return when the request succeeds, and when it
\* does not.
FetchedOk == {FetchResult(TRUE, b) : b \in Batches}
FetchedFailed == {FetchResult(FALSE, b) : b \in ErrorBodies}

\* Some record of the list has a date that does not parse.
Unparsable(d) == \E k \in 1..Len(d) : ~Parses(d[k])

\* The outcomes of sorted(sales, key=...) on what fetch_sales returned: the
\* sorted lists, and whether some list makes the key raise ValueError.
SortedOk == {SortByDate(d) : d \in {x \in FetchedOk : ~Unparsable(x)}}
SortedFailed == {SortByDate(d) : d \in {x \in FetchedFailed : ~Unparsable(x)}}
RaisesOk == \E d \in FetchedOk : Unparsable(d)
RaisesFailed == \E d \in FetchedFailed : Unparsable(d)

\* post_last_sale: what fetch_sales may return, the records that
\* `sorted(..., reverse=True)[0]` may be, and whether some list makes the
\* key raise ValueError.
Fetched == FetchedOk \cup FetchedFailed
LastSales == {SortByDateReverse(d)[1] :
                 d \in {x \in Fetched : x # <<>> /\ ~Unparsable(x)}}
LastSaleRaises == \E d \in Fetched : d # <<>> /\ Unparsable(d)

\* The collection names a command is called with: the command's default
\* and a name that is not in COLLECTIONS.
CommandArgs == {"dopedoges", "shibes"}

\* The record test_sale builds.
TestSale(c) ==
    [id |-> IF c = "dopedoges" THEN 999 ELSE 888, status |-> "bought",
     buyerAddress |-> "TESTBUYER456789123", date |-> TestDate]

\* Mutant: the save that reports a failure has written the row all the same.
StoreAfterSave_m(ok, table, c, t) == [table EXCEPT ![c] = t]

\* The table after save_last_sale_timestamp(c, t): the upsert, or nothing
\* when the statement raised.
StoreAfterSave(ok, table, c, t) ==
    IF ok THEN [table EXCEPT ![c] = t] ELSE table

\* ------------------------------------------------------------- state
VARIABLES
    store,                   \* sale_timestamps table: collection -> timestamp
    now,                     \* the wall clock
    task,                    \* state of the tasks.loop that runs check_sales
    behind,                  \* elapsed intervals whose iteration has not begun
    pc,                      \* where check_sales is suspended
    ci,                      \* position of `for collection in COLLECTIONS`
    last_sale_timestamp,
    sales,
    idx,                     \* position of `for sale in sales`
    new_last_sale_timestamp,
    current_time,
    \* history variables, read only by the properties
    loadOk,                  \* this cycle's load did not fail
    fetchOk,                 \* this cycle's fetch did not fail
    posted,                  \* records this cycle posted, in order
    saved,                   \* this cycle's save: "none", "ok" or "failed"
    started,                 \* collections whose cycle began in this iteration
    unresolved,              \* collections skipped in this iteration: no channel
    failedSave,              \* per collection: its last cycle, if the save failed
    delivered,               \* per collection and record: posts so far, up to 2
    cutShort,                \* per collection: its last cycle, if cut short
    poolUsers,               \* the coroutines that have used db_pool
    \* the administrative command in flight
    command

vars == <<store, now, task, behind, pc, ci, last_sale_timestamp, sales, idx,
          new_last_sale_timestamp, current_time, loadOk, fetchOk, posted,
          saved, started, unresolved, failedSave, delivered, cutShort,
          poolUsers, command>>

locals == <<last_sale_timestamp, sales, idx, new_last_sale_timestamp,
            current_time>>

cycleHistory == <<loadOk, fetchOk, posted, saved>>

\* Everything check_sales and its scheduler read or write.
poll == <<store, now, task, behind, pc, ci, locals, loadOk, fetchOk, posted,
          saved, started, unresolved>>

\* The history that outlives a cycle.  Spec leaves it as Init sets it;
\* SpecReplay keeps failedSave and cutShort, SpecLedger keeps delivered.
audit == <<failedSave, delivered, cutShort>>

NoSnapshot == [failed |-> FALSE]

CurrentCollection == COLLECTIONS[ci]

\* What `cutShort` keeps of the cycle that is running: its batch, the
\* watermark it loaded, its current_time and the records it has posted.
CycleSnapshot ==
    [failed |-> TRUE, sales |-> sales, last |-> last_sale_timestamp,
     ct |-> current_time, loadOk |-> loadOk, posted |-> posted]

\* No administrative command is being served.
NoCommand == [at |-> "none"]

\* The process right after start (also after a restart): nothing runs yet.
FreshProcess ==
    /\ task = "unstarted"
    /\ behind = 0
    /\ pc = "idle"
    /\ ci = 0
    /\ last_sale_timestamp = DatetimeMin
    /\ sales = <<>>
    /\ idx = 0
    /\ new_last_sale_timestamp = DatetimeMin
    /\ current_time = DatetimeMin
    /\ loadOk = TRUE
    /\ fetchOk = TRUE
    /\ posted = <<>>
    /\ saved = "none"
    /\ started = {}
    /\ unresolved = {}

Init ==
    /\ store = [c \in Collections |-> DatetimeMin]
    /\ now = FirstNow
    /\ failedSave = [c \in Collections |-> NoSnapshot]
    /\ delivered = [c \in Collections |-> [r \in Records |-> 0]]
    /\ cutShort = [c \in Collections |-> NoSnapshot]
    /\ poolUsers = {}
    /\ command = NoCommand
    /\ FreshProcess

\* --------------------------------------------------------- fragments
ResetLocals ==
    /\ last_sale_timestamp' = DatetimeMin
    /\ sales' = <<>>
    /\ idx' = 0
    /\ new_last_sale_timestamp' = DatetimeMin
    /\ current_time' = DatetimeMin
    /\ loadOk' = TRUE
    /\ fetchOk' = TRUE
    /\ posted' = <<>>
    /\ saved' = "none"

\* Mutant: a channel that is not found ends the iteration (`return` for
\* `continue`).
ForCollections_m(k, resolved, begun, skipped) ==
    /\ ResetLocals
    /\ IF k <= Len(COLLECTIONS) /\ COLLECTIONS[k] \in resolved
       THEN /\ task' = "running"
            /\ pc' = "load"
            /\ ci' = k
            /\ started' = begun \cup {COLLECTIONS[k]}
            /\ unresolved' = skipped
       ELSE /\ task' = "sleeping"
            /\ pc' = "ended"
            /\ ci' = 0
            /\ started' = begun
            /\ unresolved' = skipped \cup {COLLECTIONS[j] : j \in {k} \cap
                                               (1..Len(COLLECTIONS))}

\* `for collection in COLLECTIONS` from position k on: skip (`continue`) the
\* collections whose channel bot.get_channel does not find, and stop at the
\* first await (load_last_sale_timestamp) or at the end of the iteration.
\* `resolved` is the set of collections whose channel bot.get_channel finds;
\* `begun` and `skipped` are the history of the iteration so far.
ForCollections(k, resolved, begun, skipped) ==
    LET rest == {j \in k..Len(COLLECTIONS) : COLLECTIONS[j] \in resolved}
        stop == IF rest = {} THEN Len(COLLECTIONS) + 1
                ELSE CHOOSE j \in rest : \A m \in rest : j <= m
    IN  /\ ResetLocals
        /\ unresolved' = skipped \cup {COLLECTIONS[j] : j \in k..(stop - 1)}
        /\ IF rest = {}
           THEN /\ task' = "sleeping"
                /\ pc' = "ended"
                /\ ci' = 0
                /\ started' = begun
           ELSE /\ task' = "running"
                /\ pc' = "load"
                /\ ci' = stop
                /\ started' = begun \cup {COLLECTIONS[stop]}

\* An exception leaves check_sales.  tasks.loop retries the iteration after a
\* back-off when the exception is one it expects from a lost connection
\* (OSError, aiohttp.ClientError, asyncio.TimeoutError, ...) and ends the
\* loop for good on any other exception.
Raise(kind) ==
    /\ task' = IF kind = "connection" THEN "backoff" ELSE "failed"
    /\ pc' = "raised"
    /\ UNCHANGED <<ci, started, unresolved>>

\* The for loop over sales from position i on, with new_last_sale_timestamp
\* = newLast: up to the next await (the post of the next selected record, or
\* the save) or to the end of the cycle.
ForSales(i, newLast) ==
    LET j == NextSelected(sales, i, last_sale_timestamp, current_time)
    IN  /\ idx' = j
        /\ new_last_sale_timestamp' = newLast
        /\ pc' = IF j <= Len(sales) THEN "post"
                 ELSE AfterDeliveryPass(newLast, last_sale_timestamp)
        /\ UNCHANGED <<task, ci, started, unresolved, last_sale_timestamp,
                       sales, current_time, loadOk, fetchOk, saved>>

\* ----------------------------------------------------------- actions
\* on_ready: init_db_pool, then check_sales.start().  A pool that cannot be
\* created raises out of on_ready and the loop is never started.
OnReady ==
    /\ task = "unstarted"
    /\ \E poolOk \in BOOLEAN :
         /\ task' = IF poolOk THEN "sleeping" ELSE "aborted"
         /\ behind' = IF poolOk THEN 1 ELSE 0
    /\ UNCHANGED <<store, now, pc, ci, locals, cycleHistory, started,
                   unresolved, audit, poolUsers, command>>

\* Another 60 s have passed since the time the last iteration was due.  A
\* sleeping loop wakes up as soon as an iteration is due, so intervals pile
\* up only while check_sales runs or backs off.
IntervalElapses ==
    /\ \/ task \in {"running", "backoff"}
       \/ task = "sleeping" /\ behind = 0
    /\ behind < MaxBehind
    /\ behind' = behind + 1
    /\ UNCHANGED <<store, now, task, pc, ci, locals, cycleHistory, started,
                   unresolved, audit, poolUsers, command>>

\* Mutant: an iteration that is due begins although check_sales still runs.
StartIteration_m(chans) ==
    /\ task \in {"sleeping", "running"}
    /\ behind > 0
    /\ behind' = behind - 1
    /\ \E resolved \in SUBSET chans :
         ForCollections(1, resolved, {}, {})
    /\ UNCHANGED <<store, now, audit, poolUsers, command>>

\* tasks.loop calls check_sales for an iteration that is due: the loop
\* awaits check_sales, so it is asleep when it does.
\* `chans` are the collections whose channel the bot can see at all.
StartIteration(chans) ==
    /\ task = "sleeping"
    /\ behind > 0
    /\ behind' = behind - 1
    /\ \E resolved \in SUBSET chans :
         ForCollections(1, resolved, {}, {})
    /\ UNCHANGED <<store, now, audit, poolUsers, command>>

\* tasks.loop calls check_sales again after the back-off.
RetryIteration(chans) ==
    /\ task = "backoff"
    /\ \E resolved \in SUBSET chans :
         ForCollections(1, resolved, {}, {})
    /\ UNCHANGED <<store, now, behind, audit, poolUsers, command>>

\* load_last_sale_timestamp returns: the stored timestamp, or datetime.min
\* when there is no row or the query raised.
LoadReturns ==
    /\ pc = "load"
    /\ \E ok \in BOOLEAN :
         /\ last_sale_timestamp' = LoadResult(ok, store[CurrentCollection])
         /\ loadOk' = ok
    /\ pc' = "fetch"
    /\ poolUsers' = poolUsers \cup {"check_sales"}
    /\ UNCHANGED <<store, now, task, behind, ci, sales, idx,
                   new_last_sale_timestamp, current_time, fetchOk, posted,
                   saved, started, unresolved, audit, command>>

\* fetch_sales returns the batch, or [] on a transport error or a non-200
\* response; check_sales sorts it and takes the time.  A date that does not
\* parse raises ValueError out of the sort.
\* `replay` says whether the memory of a failed save or of a cycle cut
\* short is kept: it is dropped when the feed returns another batch than the
\* one of that cycle.
FetchReturns(replay) ==
    /\ pc = "fetch"
    /\ \E ok \in BOOLEAN :
         LET kept == failedSave[CurrentCollection]
             drop == [failedSave EXCEPT ![CurrentCollection] = NoSnapshot]
             keptCut == cutShort[CurrentCollection]
             dropCut == [cutShort EXCEPT ![CurrentCollection] = NoSnapshot]
         IN  /\ fetchOk' = ok
             /\ \/ /\ IF ok THEN RaisesOk ELSE RaisesFailed
                   /\ Raise("other")
                   /\ UNCHANGED locals
                   /\ failedSave' = IF replay THEN drop ELSE failedSave
                   /\ cutShort' = IF replay THEN dropCut ELSE cutShort
                \/ \E sorted \in IF ok THEN SortedOk ELSE SortedFailed :
                       /\ sales' = sorted
                       /\ new_last_sale_timestamp' = last_sale_timestamp
                       /\ current_time' = now
                       /\ idx' = 1
                       /\ pc' = "loop"
                       /\ UNCHANGED <<task, ci, started, unresolved,
                                      last_sale_timestamp>>
                       /\ failedSave' =
                              IF replay /\ kept.failed /\ kept.sales # sorted
                              THEN drop ELSE failedSave
                       /\ cutShort' =
                              IF replay /\ keptCut.failed
                                        /\ keptCut.sales # sorted
                              THEN dropCut ELSE cutShort
    /\ UNCHANGED <<store, now, behind, loadOk, posted, saved, delivered,
                   poolUsers, command>>

\* The for loop over the sorted batch up to its first await.
\* `replay` says whether the memory of a failed save or of a cycle cut
\* short is kept: it is dropped once the next cycle of the collection enters
\* its for loop.
EnterLoop(replay) ==
    /\ pc = "loop"
    /\ ForSales(1, new_last_sale_timestamp)
    /\ failedSave' = IF replay
                     THEN [failedSave EXCEPT ![CurrentCollection] = NoSnapshot]
                     ELSE failedSave
    /\ cutShort' = IF replay
                   THEN [cutShort EXCEPT ![CurrentCollection] = NoSnapshot]
                   ELSE cutShort
    /\ UNCHANGED <<store, now, behind, posted, delivered, poolUsers, command>>

\* Mutant: the watermark is saved after every post.
PostReturns_m(ledger, replay) ==
    /\ pc = "post"
    /\ \/ LET t == ParseDate(sales[idx])
          IN  /\ posted' = Append(posted, sales[idx])
              /\ store' = StoreAfterSave(TRUE, store, CurrentCollection, t)
              /\ ForSales(idx + 1,
                          NewLastSaleTimestamp(t, new_last_sale_timestamp))
              /\ UNCHANGED cutShort
       \/ \E kind \in {"connection", "other"} :
              /\ Raise(kind)
              /\ cutShort' =
                     IF replay /\ posted # <<>>
                     THEN [cutShort EXCEPT
                              ![CurrentCollection] = CycleSnapshot]
                     ELSE cutShort
              /\ UNCHANGED <<store, locals, cycleHistory>>
    /\ UNCHANGED <<now, behind, failedSave, delivered, poolUsers, command>>

\* post_sale_to_discord returns the record's timestamp, or channel.send
\* raises; nothing in check_sales catches that.
\* `ledger` says whether the posts are counted in `delivered`, `replay`
\* whether a cycle that ends here after a first post is kept in `cutShort`.
PostReturns(ledger, replay) ==
    /\ pc = "post"
    /\ \/ LET t == ParseDate(sales[idx])
              n == delivered[CurrentCollection][sales[idx]]
          IN  /\ posted' = Append(posted, sales[idx])
              /\ delivered' =
                     IF ledger /\ n < 2
                     THEN [delivered EXCEPT
                              ![CurrentCollection][sales[idx]] = n + 1]
                     ELSE delivered
              /\ ForSales(idx + 1,
                          NewLastSaleTimestamp(t, new_last_sale_timestamp))
              /\ UNCHANGED cutShort
       \/ \E kind \in {"connection", "other"} :
              /\ Raise(kind)
              /\ cutShort' =
                     IF replay /\ posted # <<>>
                     THEN [cutShort EXCEPT
                              ![CurrentCollection] = CycleSnapshot]
                     ELSE cutShort
              /\ UNCHANGED <<locals, cycleHistory, delivered>>
    /\ UNCHANGED <<store, now, behind, failedSave, poolUsers, command>>

\* save_last_sale_timestamp returns: the upsert is done, or it raised and
\* the exception was printed.
SaveReturns ==
    /\ pc = "save"
    /\ \E ok \in BOOLEAN :
         /\ store' = StoreAfterSave(ok, store, CurrentCollection,
                                    new_last_sale_timestamp)
         /\ saved' = IF ok THEN "ok" ELSE "failed"
    /\ pc' = "done"
    /\ poolUsers' = poolUsers \cup {"check_sales"}
    /\ UNCHANGED <<now, task, behind, ci, locals, loadOk, fetchOk, posted,
                   started, unresolved, audit, command>>

\* The cycle of one collection is over: the for loop goes on to the next
\* collection.
\* `replay` says whether a cycle whose save failed is kept in `failedSave`.
NextCollection(chans, replay) ==
    /\ pc = "done"
    /\ \E resolved \in SUBSET chans :
         ForCollections(ci + 1, resolved, started, unresolved)
    /\ failedSave' =
           IF replay /\ saved = "failed"
           THEN [failedSave EXCEPT ![CurrentCollection] =
                    [failed |-> TRUE, sales |-> sales,
                     last |-> last_sale_timestamp, ct |-> current_time,
                     loadOk |-> loadOk]]
           ELSE failedSave
    /\ UNCHANGED <<store, now, behind, delivered, cutShort, poolUsers,
                   command>>

\* The process dies and is started again; only the table survives.
\* `replay` says whether a cycle that dies between two posts is kept in
\* `cutShort`.
Restart(replay) ==
    /\ task # "unstarted"
    /\ task' = "unstarted"
    /\ behind' = 0
    /\ pc' = "idle"
    /\ ci' = 0
    /\ ResetLocals
    /\ started' = {}
    /\ unresolved' = {}
    /\ poolUsers' = {}
    /\ command' = NoCommand
    /\ cutShort' = IF replay /\ pc = "post" /\ posted # <<>>
                   THEN [cutShort EXCEPT ![CurrentCollection] = CycleSnapshot]
                   ELSE cutShort
    /\ UNCHANGED <<store, now, failedSave, delivered>>

ClockAdvances ==
    /\ now < FirstNow + MaxClock
    /\ now' = now + 1
    /\ UNCHANGED <<store, task, behind, pc, ci, locals, cycleHistory,
                   started, unresolved, audit, poolUsers, command>>

\* The answer of a command that has posted its record.
Posted(op) ==
    IF op = "post_last_sale" THEN "Last sale posted" ELSE "Test sale posted"

\* A user sends !post_last_sale or !test_sale: the command runs up to its
\* first await.  `found` says whether bot.get_channel finds the channel.
InvokeCommand ==
    /\ command = NoCommand
    /\ \E op \in {"post_last_sale", "test_sale"}, c \in CommandArgs,
          found \in BOOLEAN :
         command' =
             IF c \notin Collections
             THEN [at |-> "reply", say |-> "Invalid collection"]
             ELSE IF ~found
             THEN [at |-> "reply", say |-> "Channel not found"]
             ELSE IF op = "post_last_sale"
             THEN [at |-> "fetch", op |-> op, collection |-> c]
             ELSE [at |-> "post", op |-> op, collection |-> c,
                   sale |-> TestSale(c)]
    /\ UNCHANGED <<poll, audit, poolUsers>>

\* post_last_sale: fetch_sales returns.  An empty list is answered with "No
\* sales data"; otherwise the list is sorted newest first (a date that does
\* not parse raises out of the command) and its first record is posted.
CommandFetchReturns ==
    /\ command.at = "fetch"
    /\ \/ /\ <<>> \in Fetched
          /\ command' = [at |-> "reply", say |-> "No sales data"]
       \/ /\ LastSaleRaises
          /\ command' = NoCommand
       \/ \E last_sale \in LastSales :
              command' = [at |-> "post", op |-> command.op,
                          collection |-> command.collection,
                          sale |-> last_sale]
    /\ UNCHANGED <<poll, audit, poolUsers>>

\* Mutant: the command records what it posted as the collection's watermark.
CommandPostReturns_m ==
    /\ command.at = "post"
    /\ command' = [at |-> "reply", say |-> Posted(command.op)]
    /\ store' = StoreAfterSave(TRUE, store, command.collection,
                               ParseDate(command.sale))
    /\ poolUsers' = poolUsers \cup {command.op}
    /\ UNCHANGED <<now, task, behind, pc, ci, locals, cycleHistory, started,
                   unresolved, audit>>

\* post_sale_to_discord returns to the command, or channel.send raises and
\* the command ends with the exception.
CommandPostReturns ==
    /\ command.at = "post"
    /\ \/ command' = [at |-> "reply", say |-> Posted(command.op)]
       \/ command' = NoCommand
    /\ UNCHANGED <<poll, audit, poolUsers>>

\* ctx.send returns (or raises): the command is over.
CommandReplyReturns ==
    /\ command.at = "reply"
    /\ command' = NoCommand
    /\ UNCHANGED <<poll, audit, poolUsers>>

Next ==
    \/ OnReady
    \/ IntervalElapses
    \/ StartIteration(Collections)
    \/ RetryIteration(Collections)
    \/ LoadReturns
    \/ FetchReturns(FALSE)
    \/ EnterLoop(FALSE)
    \/ PostReturns(FALSE, FALSE)
    \/ SaveReturns
    \/ NextCollection(Collections, FALSE)
    \/ Restart(FALSE)
    \/ ClockAdvances

Spec == Init /\ [][Next]_vars

\* The bot as the source configures it, with one collection in service (the
\* channel of the second is never found).
OneCollection(ledger, replay) ==
    \/ OnReady
    \/ IntervalElapses
    \/ StartIteration({COLLECTIONS[1]})
    \/ RetryIteration({COLLECTIONS[1]})
    \/ LoadReturns
    \/ FetchReturns(replay)
    \/ EnterLoop(replay)
    \/ PostReturns(ledger, replay)
    \/ SaveReturns
    \/ NextCollection({COLLECTIONS[1]}, replay)
    \/ Restart(replay)
    \/ ClockAdvances

\* ... observed with the count of the posts of every record.
NextLedger == OneCollection(TRUE, FALSE)

SpecLedger == Init /\ [][NextLedger]_vars

\* ... observed with the memory of the last cycle whose save failed or that
\* was cut short.
NextReplay == OneCollection(FALSE, TRUE)

SpecReplay == Init /\ [][NextReplay]_vars

\* ... with the administrative commands, one at a time, served between the
\* steps of check_sales.
NextAdmin ==
    \/ OneCollection(FALSE, FALSE)
    \/ InvokeCommand
    \/ CommandFetchReturns
    \/ CommandPostReturns
    \/ CommandReplyReturns

SpecAdmin == Init /\ [][NextAdmin]_vars

\* ------------------------------------------------------------ claims
\* check_sales is inside the cycle of one collection.
InCycle == pc \in {"load", "fetch", "loop", "post", "save", "done"}

\* The exception that ended the iteration came out of post_sale_to_discord
\* (an exception out of the sort leaves before the for loop has a position).
PostRaised == pc = "raised" /\ idx > 0

\* C1: the persisted watermark of a collection never decreases, whatever
\* fails in a cycle (load, fetch, save).
C1_WatermarkMonotonic ==
    [][\A c \in Collections : store'[c] >= store[c]]_vars

\* C2: no record whose timestamp is at or below the persisted watermark of
\* its collection is handed to post_sale_to_discord.
C2_NoPostAtOrBelowPersisted ==
    pc = "post" => ParseDate(sales[idx]) > store[CurrentCollection]

\* C2, amended: a record handed to post_sale_to_discord is newer than the
\* watermark the cycle loaded, and after a load that did not fail the
\* loaded watermark is the persisted one.
C2_NoPostAtOrBelowLoaded ==
    pc = "post" =>
        /\ ParseDate(sales[idx]) > last_sale_timestamp
        /\ loadOk => last_sale_timestamp = store[CurrentCollection]

\* C2, witness: a post while the batch holds a fresh completed sale at or
\* below a persisted watermark that was loaded.
C2_Witness ==
    /\ pc = "post"
    /\ loadOk
    /\ store[CurrentCollection] > DatetimeMin
    /\ \E k \in 1..Len(sales) :
            /\ ~NotASale(sales[k])
            /\ ~OlderThanWindow(sales[k], current_time)
            /\ ParseDate(sales[k]) <= store[CurrentCollection]

\* C3: every completed sale is posted exactly once: no record is posted
\* twice, and when a cycle completes every completed sale of its batch that
\* is inside the 24 h window has been posted once.
C3_ExactlyOnce ==
    /\ \A c \in Collections, r \in Records : delivered[c][r] <= 1
    /\ pc = "done" =>
          \A k \in 1..Len(sales) :
              (~NotASale(sales[k]) /\ ~OlderThanWindow(sales[k], current_time))
                  => delivered[CurrentCollection][sales[k]] = 1

\* C4: a record older than 24 hours at the cycle's current_time is never
\* handed to post_sale_to_discord, whatever the watermark.
C4_NoStalePost ==
    /\ pc = "post" => current_time - ParseDate(sales[idx]) <= Window
    /\ \A k \in 1..Len(posted) :
           current_time - ParseDate(posted[k]) <= Window

\* C4, witness: a post under the epoch sentinel of a failed load, from a
\* batch that also holds a completed sale older than 24 hours.
C4_Witness ==
    /\ pc = "post"
    /\ ~loadOk
    /\ last_sale_timestamp = DatetimeMin
    /\ \E k \in 1..Len(sales) :
           ~NotASale(sales[k]) /\ OlderThanWindow(sales[k], current_time)

\* C5: a cycle whose fetch failed posts nothing and saves nothing, and the
\* table is as it was before the cycle.
C5_FetchFailureNoOp ==
    [][/\ pc \in {"load", "fetch", "loop"} => store' = store
       /\ ~fetchOk' =>
             /\ posted' = <<>>
             /\ saved' = "none"
             /\ pc' \in {"loop", "done"}]_vars

\* C5, witness: a cycle that ended after a failed fetch, with a watermark
\* in the table.
C5_Witness ==
    /\ pc = "done"
    /\ ~fetchOk
    /\ store[CurrentCollection] > DatetimeMin

\* The next cycle of the collection has fetched the very batch of the cycle
\* whose save failed, with the same records inside the 24 h window.
SameBatchAfterFailedSave ==
    /\ pc = "loop"
    /\ failedSave[CurrentCollection].failed
    /\ failedSave[CurrentCollection].sales = sales
    /\ FreshSet(failedSave[CurrentCollection].sales,
                failedSave[CurrentCollection].ct) = FreshSet(sales, current_time)

SameSelectionAsFailedSave ==
    SelectedSet(sales, last_sale_timestamp, current_time) =
        SelectedSet(failedSave[CurrentCollection].sales,
                    failedSave[CurrentCollection].last,
                    failedSave[CurrentCollection].ct)

\* A failed save leaves the table as it was.
FailedSaveKeepsStore == [][saved' = "failed" => store' = store]_vars

\* C6: a failed save leaves the watermark unchanged, and the next cycle,
\* given the identical batch, selects the same records.
C6_SameSelectionAfterFailedSave ==
    /\ FailedSaveKeepsStore
    /\ [](SameBatchAfterFailedSave => SameSelectionAsFailedSave)

\* C6, amended: ... provided load_last_sale_timestamp ends in the next
\* cycle as it ended in the cycle whose save failed (it returns the stored
\* watermark in both or fails in both).
C6_SameSelectionSameLoad ==
    /\ FailedSaveKeepsStore
    /\ []((SameBatchAfterFailedSave
             /\ failedSave[CurrentCollection].loadOk = loadOk)
            => SameSelectionAsFailedSave)

\* C6, witness: the identical batch after a failed save, with a record
\* selected again.
C6_Witness ==
    /\ SameBatchAfterFailedSave
    /\ failedSave[CurrentCollection].loadOk = loadOk
    /\ loadOk
    /\ SelectedSet(sales, last_sale_timestamp, current_time) # {}

\* C7: when a post raises, the cycle still attempts every later selected
\* record: the iteration does not end with a selected record unattempted.
C7_PostFailureDoesNotBlock ==
    PostRaised =>
        NextSelected(sales, idx + 1, last_sale_timestamp, current_time)
            > Len(sales)

\* C8: an error raised by a post does not end the check_sales loop.
C8_SchedulerSurvives == PostRaised => task # "failed"

\* C9: when an iteration is over, however it ended, every tracked
\* collection has had its cycle or was skipped for its missing channel.
C9_CollectionsIsolated ==
    pc \in {"ended", "raised"} => started \cup unresolved = Collections

\* A cycle begins only when check_sales is not inside another cycle.
OneCycleAtATime ==
    [][(pc' = "load" /\ pc # "load")
          => pc \in {"idle", "ended", "raised", "done"}]_vars

C11_CommandsBypassWatermark ==
    /\ [](poolUsers \subseteq {"check_sales"})
    /\ [][(command' # command /\ task' = task)
             => (store' = store /\ poll' = poll)]_vars

\* C11, witness: a command has posted while a poll cycle with a watermark
\* in the table is waiting for its own post.
C11_Witness ==
    /\ command.at = "reply"
    /\ command.say = "Last sale posted"
    /\ pc = "post"
    /\ store[CurrentCollection] > DatetimeMin

\* C12: the records a cycle posts are in ascending order of timestamp,
\* whatever the order of the batch: no record is posted after one of the same
\* cycle that is dated later.
C12_AscendingPosts ==
    /\ \A i, j \in 1..Len(posted) :
           i < j => ParseDate(posted[i]) <= ParseDate(posted[j])
    /\ pc = "post" =>
           \A k \in 1..Len(posted) :
               ParseDate(posted[k]) <= ParseDate(sales[idx])

\* C12, witness: a cycle has posted two records of different dates.
C12_Witness ==
    /\ Len(posted) = 2
    /\ ParseDate(posted[1]) < ParseDate(posted[2])

\* The timestamps of the records the cycle has posted.
PostedDates == {ParseDate(posted[k]) : k \in 1..Len(posted)}

MaxOf(S) == CHOOSE x \in S : \A y \in S : y <= x

\* C13: after the delivery pass the candidate watermark, which is the value
\* passed to the save, is the largest of the loaded watermark and the
\* timestamps of the posted records; a cycle that posts nothing saves
\* nothing, and the table changes only by that save.
C13_SavedIsMax ==
    /\ [](pc \in {"save", "done"} =>
            /\ new_last_sale_timestamp =
                   MaxOf({last_sale_timestamp} \cup PostedDates)
            /\ posted = <<>> => (pc = "done" /\ saved = "none")
            /\ (pc = "done" /\ posted # <<>>) => saved # "none")
    /\ [][store' # store =>
            /\ pc = "save"
            /\ posted # <<>>
            /\ store' = [store EXCEPT ![CurrentCollection] =
                                          new_last_sale_timestamp]]_vars

\* C13, witness: the save of a cycle that loaded a watermark, skipped a
\* completed sale at or below it and posted a newer one.
C13_Witness ==
    /\ pc = "save"
    /\ loadOk
    /\ last_sale_timestamp > DatetimeMin
    /\ posted # <<>>
    /\ \E k \in 1..Len(sales) :
           /\ ~NotASale(sales[k])
           /\ ~OlderThanWindow(sales[k], current_time)
           /\ ParseDate(sales[k]) <= last_sale_timestamp

\* C14: when a post fails, the cycle still ends with a save of the
\* watermark.
C14_SaveAfterFailedPost == PostRaised => saved # "none"

\* The exception that ended the iteration came out of the sort of the batch.
SortRaised == pc = "raised" /\ idx = 0

\* C15: a record whose date is missing or does not parse counts as dated
\* at the epoch and does not fail the cycle.
C15_BadDateAsEpoch ==
    /\ ~SortRaised
    /\ \A k \in 1..Len(sales) :
           sales[k].date \in {NoDate, BadDate} => ParseDate(sales[k]) = Epoch

\* C16: a collection whose channel is not found has no cycle in the
\* iteration (nothing is loaded, fetched, posted or saved for it), and the
\* for loop goes on: every collection before the current one, and every
\* collection when the iteration has ended, has had its cycle or was skipped.
C16_UnresolvedSkipped ==
    /\ [](unresolved \cap started = {})
    /\ [](InCycle =>
            /\ CurrentCollection \notin unresolved
            /\ \A j \in 1..(ci - 1) :
                   COLLECTIONS[j] \in started \cup unresolved)
    /\ [](pc = "ended" => started \cup unresolved = Collections)
    /\ [][\A c \in unresolved' : store'[c] = store[c]]_vars

\* C16, witness: the second collection posts in an iteration that skipped
\* the first for its missing channel.
C16_Witness ==
    /\ pc = "post"
    /\ ci = 2
    /\ COLLECTIONS[1] \in unresolved

\* C17: a failed load does not end the cycle: the cycle goes on to the fetch
\* with datetime.min as its watermark, and what it posts is a completed sale
\* not older than 24 hours.
C17_LoadFailureBounded ==
    /\ []((pc \in {"fetch", "loop", "post", "save", "done"} /\ ~loadOk)
            => last_sale_timestamp = DatetimeMin)
    /\ []((pc = "post" /\ ~loadOk) =>
            /\ sales[idx].status = "bought"
            /\ sales[idx].buyerAddress # ""
            /\ current_time - ParseDate(sales[idx]) <= Window)
    /\ [][(pc = "load" /\ pc' # "load")
             => (pc' = "fetch" \/ task' = "unstarted")]_vars

\* C17, witness: after a failed load the cycle posts a record that the
\* persisted watermark had covered.
C17_Witness ==
    /\ pc = "post"
    /\ ~loadOk
    /\ ParseDate(sales[idx]) <= store[CurrentCollection]

\* C18: a cycle saves at most once, after the last post of its delivery
\* pass, and only a watermark that differs from the one it loaded.
C18_OneSaveAfterPosts ==
    /\ [](pc = "save" =>
            /\ saved = "none"
            /\ idx = Len(sales) + 1
            /\ Len(posted) = Cardinality(SelectedSet(sales,
                                 last_sale_timestamp, current_time))
            /\ new_last_sale_timestamp # last_sale_timestamp)
    /\ [](saved # "none" => pc = "done")
    /\ [][saved' # saved => (saved' = "none" \/ (pc = "save" /\ pc' = "done"))]_vars

\* C18, witness: the save of a cycle that has posted two records.
C18_Witness == pc = "save" /\ Len(posted) = 2

\* The record is what the claim calls eligible: a completed sale with a
\* buyer, not older than 24 hours and newer than the loaded watermark.
Eligible(r) ==
    /\ r.status = "bought"
    /\ r.buyerAddress # ""
    /\ ParseDate(r) >= current_time - Window
    /\ ParseDate(r) > last_sale_timestamp

\* C19: after the delivery pass the posted records are exactly the eligible
\* records of the batch, each position once (two records that share a
\* timestamp are both posted), and the candidate watermark is the loaded one
\* or the timestamp of an eligible record.
C19_PostedAreEligible ==
    pc \in {"save", "done"} =>
        /\ posted = SelectSeq(sales, Eligible)
        /\ new_last_sale_timestamp \in
               {last_sale_timestamp} \cup
                   {ParseDate(sales[k]) :
                        k \in {j \in 1..Len(sales) : Eligible(sales[j])}}

\* C19, witness: a cycle has posted two different records that share a
\* timestamp.
C19_Witness ==
    /\ pc \in {"save", "done"}
    /\ Len(posted) = 2
    /\ posted[1].date = posted[2].date
    /\ posted[1].id # posted[2].id

\* The table does not change from the start of a cycle to the end of its
\* delivery pass.
NoSaveBeforeDeliveryEnds ==
    [][(pc \in {"load", "fetch", "loop", "post"}) => (store' = store)]_vars

\* The next cycle of the collection has fetched the very batch of the cycle
\* that was cut short, with the same records inside the 24 h window.
SameBatchAfterCut ==
    /\ pc = "loop"
    /\ cutShort[CurrentCollection].failed
    /\ cutShort[CurrentCollection].sales = sales
    /\ FreshSet(cutShort[CurrentCollection].sales,
                cutShort[CurrentCollection].ct) = FreshSet(sales, current_time)

\* Every record the cycle that was cut short had posted is selected again.
PostedBeforeCutSelectedAgain ==
    \A k \in 1..Len(cutShort[CurrentCollection].posted) :
        \E j \in SelectedSet(sales, last_sale_timestamp, current_time) :
            sales[j] = cutShort[CurrentCollection].posted[k]

\* C20: a cycle cut short after some posts leaves the table as it was
\* before the cycle, and the next cycle, given the same batch, selects again
\* the records that were posted.
C20_CutShortRepeats ==
    /\ NoSaveBeforeDeliveryEnds
    /\ [](SameBatchAfterCut => PostedBeforeCutSelectedAgain)

\* C20, amended: ... provided load_last_sale_timestamp ends in the next
\* cycle as it ended in the cycle that was cut short.
C20_CutShortRepeatsSameLoad ==
    /\ NoSaveBeforeDeliveryEnds
    /\ []((SameBatchAfterCut
             /\ cutShort[CurrentCollection].loadOk = loadOk)
            => PostedBeforeCutSelectedAgain)

\* C20, witness: the same batch after a cycle that was cut short, with a
\* watermark in the table that both cycles loaded.
C20_Witness ==
    /\ SameBatchAfterCut
    /\ cutShort[CurrentCollection].loadOk
    /\ loadOk
    /\ store[CurrentCollection] > DatetimeMin
====
